---------------------------- MODULE Spec2Model ----------------------------
(***************************************************************************)
(* Model of gnn_image_resize.py: the size policy (compute_new_size), the   *)
(* output naming (guess_output_ext) and the cancellable batch loop         *)
(* (App.start / App.stop / App._poll_worker / App._process_all) together   *)
(* with the list-editing handlers that stay enabled while a batch runs.    *)
(*                                                                         *)
(* Two specifications are defined over the same variables:                 *)
(*   Spec      the UI thread, the poll timer and the worker thread;        *)
(*   SpecSize  compute_new_size applied to inputs drawn from bounded sets. *)
(***************************************************************************)
EXTENDS Integers, Naturals, Sequences, FiniteSets, TLC

(* ------------------------------ bounds -------------------------------- *)
\* largest source width / height drawn in SpecSize
MaxDim == 22
\* largest requested width / height drawn in SpecSize
MaxReq == 15
\* number of batches (successful starts) explored in Spec
MaxBatches == 2
\* number of swallowed I/O faults (the old log cannot be removed, a log entry
\* cannot be written) in one run
MaxIoFaults == 1

(* --------------------------- small helpers ---------------------------- *)
Max(a, b) == IF a >= b THEN a ELSE b
Min(a, b) == IF a <= b THEN a ELSE b
Abs(a) == IF a < 0 THEN 0 - a ELSE a

clamp(n, lo, hi) == Max(lo, Min(hi, n))

RECURSIVE Pow2(_)
Pow2(n) == IF n <= 0 THEN 1 ELSE 2 * Pow2(n - 1)

(***************************************************************************)
(* IEEE-754 double arithmetic of compute_new_size, in integers.            *)
(*                                                                         *)
(* The code never rounds the exact quotient: it rounds a double that is    *)
(* the product (or quotient) of an integer and an already rounded double   *)
(* quotient, and Python's round() on a double is round-half-to-even on     *)
(* the value of that double.  For the integer operands of this model the   *)
(* double differs from the exact value by a few units in the last place,   *)
(* which changes the result only when the exact value is n + 1/2; there    *)
(* the direction of the accumulated error decides between n and n + 1.     *)
(* The definitions below compute that direction exactly:                   *)
(*   fl(b/c) = m / 2^k  with k = 52 - FloorLog2(b, c), m = RN(b*2^k / c),  *)
(*   DivResidue(b, c) = c*m - b*2^k  (the signed rounding error of m,      *)
(*   scaled by c), and the half-unit-in-the-last-place threshold at        *)
(*   n + 1/2 is 2^(FloorLog2(2n+1, 2) - 53).                               *)
(***************************************************************************)

\* E with 2^E <= a/b < 2^(E+1), for a, b > 0
RECURSIVE FloorLog2Up(_, _, _)
FloorLog2Up(a, b, e) == IF b * Pow2(e + 1) <= a THEN FloorLog2Up(a, b, e + 1) ELSE e
RECURSIVE FloorLog2Down(_, _, _)
FloorLog2Down(a, b, e) == IF a * Pow2(e) < b THEN FloorLog2Down(a, b, e + 1) ELSE 0 - e
FloorLog2(a, b) == IF a >= b THEN FloorLog2Up(a, b, 0) ELSE FloorLog2Down(a, b, 1)

\* 2^k mod c
RECURSIVE PowMod2(_, _)
PowMod2(k, c) == IF k <= 0 THEN 1 % c ELSE (2 * PowMod2(k - 1, c)) % c

\* c*m - b*2^k for the 53-bit significand m of the double b / c
\* (2r = c, a tie of the division, needs 2^(k+1) to divide c and cannot happen)
DivResidue(b, c) ==
    LET k == 52 - FloorLog2(b, c)
        r == ((b % c) * PowMod2(k, c)) % c
    IN  IF 2 * r < c THEN 0 - r ELSE c - r

\* Python round() of the double n + 1/2: round half to even
RoundHalfEven(n) == IF n % 2 = 0 THEN n ELSE n + 1

\* int(round(a * (b / c))) in doubles, a, b, c > 0
RoundMul(a, b, c) ==
    LET N == a * b
    IN  IF (2 * N) % c # 0 \/ ((2 * N) \div c) % 2 = 0
        THEN (2 * N + c) \div (2 * c)
        ELSE LET n   == N \div c
                 dev == a * DivResidue(b, c)
                 lim == c * Pow2(FloorLog2(2 * n + 1, 2) - FloorLog2(b, c))
             IN  IF dev > 0 /\ 2 * dev > lim THEN n + 1
                 ELSE IF dev < 0 /\ (IF n = 0 THEN 4 ELSE 2) * (0 - dev) > lim THEN n
                 ELSE RoundHalfEven(n)

\* int(round(a / (b / c))) in doubles, a, b, c > 0
RoundDiv(a, b, c) ==
    LET N == a * c
    IN  IF (2 * N) % b # 0 \/ ((2 * N) \div b) % 2 = 0
        THEN (2 * N + b) \div (2 * b)
        ELSE LET n  == N \div b
                 cr == DivResidue(b, c)
                 D  == FloorLog2(2 * n + 1, 2) - FloorLog2(b, c)
                 L  == 2 * a * Abs(cr) * c * Pow2(0 - D)
                 R  == b * b * Pow2(D)
             IN  IF cr < 0 /\ L >= R THEN n + 1
                 ELSE IF cr > 0 /\ (IF n = 0 THEN 2 ELSE 1) * L > R THEN n
                 ELSE RoundHalfEven(n)

(* ---------------------------- SizePolicy ------------------------------ *)
\* the comparison with >= in place of >
binding_axis_tie_height(w, h, target_w, target_h) ==
    IF target_w * h >= w * target_h THEN "height" ELSE "width"

\* lines 128-134: the branch taken when both sizes are given.  tgt_ratio >
\* src_ratio: the two doubles compare as the exact quotients do (correctly
\* rounded, operands far below 2^26).  "height": the height is kept and the
\* width recomputed (lines 131-132); "width": the width is kept and the height
\* recomputed (lines 133-134)
binding_axis(w, h, target_w, target_h) ==
    IF target_w * h > w * target_h THEN "height" ELSE "width"

\* compute_new_size without the final clamp of the percent branch
compute_new_size_noclamp(w, h, mode, percent, width_px, height_px, keep_aspect) ==
    IF mode = "percent"
    THEN LET p == Max(1, percent)
         IN  <<RoundMul(w, p, 100), RoundMul(h, p, 100)>>
    ELSE <<Max(1, IF width_px > 0 THEN width_px ELSE w),
           Max(1, IF height_px > 0 THEN height_px ELSE h)>>

compute_new_size(w, h, mode, percent, width_px, height_px, keep_aspect) ==
    IF mode = "percent"
    THEN LET p == Max(1, percent)
         IN  <<Max(1, RoundMul(w, p, 100)), Max(1, RoundMul(h, p, 100))>>
    ELSE LET target_w == IF width_px > 0 THEN width_px ELSE w
             target_h == IF height_px > 0 THEN height_px ELSE h
         IN  IF ~keep_aspect
             THEN <<Max(1, target_w), Max(1, target_h)>>
             ELSE IF width_px > 0 /\ height_px <= 0
             THEN <<Max(1, target_w), Max(1, Max(1, RoundMul(h, target_w, w)))>>
             ELSE IF height_px > 0 /\ width_px <= 0
             THEN <<Max(1, Max(1, RoundMul(w, target_h, h))), Max(1, target_h)>>
             ELSE IF binding_axis(w, h, target_w, target_h) = "height"
             THEN <<Max(1, RoundMul(target_h, w, h)), Max(1, target_h)>>
             ELSE <<Max(1, target_w), Max(1, RoundDiv(target_w, w, h))>>


(* ---------------------------- FormatPolicy ---------------------------- *)
SUPPORTED_EXTS == {".jpg", ".jpeg", ".jpe", ".png", ".webp", ".bmp", ".tif", ".tiff", ".gif"}

\* str.lower() on the suffixes that occur in the model
lower(s) ==
    CASE s = ".JPG"  -> ".jpg"
      [] s = ".JPEG" -> ".jpeg"
      [] s = ".JPE"  -> ".jpe"
      [] s = ".PNG"  -> ".png"
      [] OTHER -> s

\* out_ext.replace(".", "") on the lower-case suffixes
replace_dot(ext) ==
    CASE ext = ".jpg"  -> "jpg"
      [] ext = ".jpeg" -> "jpeg"
      [] ext = ".jpe"  -> "jpe"
      [] ext = ".png"  -> "png"
      [] ext = ".webp" -> "webp"
      [] ext = ".bmp"  -> "bmp"
      [] ext = ".tif"  -> "tif"
      [] ext = ".tiff" -> "tiff"
      [] ext = ".gif"  -> "gif"
      [] OTHER -> ext

\* str.upper() on the format names normalize_mode_for_save is given
upper(s) ==
    CASE s = "jpg"  -> "JPG"
      [] s = "jpeg" -> "JPEG"
      [] s = "jpe"  -> "JPE"
      [] s = "png"  -> "PNG"
      [] s = "webp" -> "WEBP"
      [] s = "bmp"  -> "BMP"
      [] s = "tif"  -> "TIF"
      [] s = "tiff" -> "TIFF"
      [] s = "gif"  -> "GIF"
      [] OTHER -> s

guess_output_ext(fmt_choice, src_ext) ==
    IF fmt_choice = "Orijinal" THEN lower(src_ext)
    ELSE CASE fmt_choice = "JPEG" -> ".jpg"
           [] fmt_choice = "PNG"  -> ".png"
           [] fmt_choice = "WEBP" -> ".webp"
           [] fmt_choice = "TIFF" -> ".tiff"
           [] fmt_choice = "BMP"  -> ".bmp"
           [] fmt_choice = "GIF"  -> ".gif"
           [] OTHER -> lower(src_ext)

\* f"{path.stem}_{new_w}x{new_h}{out_ext}" with every part of the name dropped
\* but the stem
out_name_stem_only(path, new_size, out_ext) ==
    [stem |-> path.stem, w |-> 0, h |-> 0, ext |-> ""]

\* f"{path.stem}_{new_w}x{new_h}{out_ext}": the name is its four parts
out_name(path, new_size, out_ext) ==
    [stem |-> path.stem, w |-> new_size[1], h |-> new_size[2], ext |-> out_ext]

(* ------------------------- ColorModePolicy ---------------------------- *)
\* an image is its mode, whether info holds "transparency" and "exif", its
\* size, and how it was composed: "source" (as decoded), "converted"
\* (img.convert("RGB")), "white_alpha" (pasted on white through its alpha
\* band) or "white_nomask" (pasted on white with mask=None)
normalize_mode_for_save(img, out_fmt) ==
    IF upper(out_fmt) \in {"JPEG", "JPG"}
    THEN IF img.mode \in {"RGBA", "LA"} \/ (img.mode = "P" /\ img.transparency)
         THEN [mode |-> "RGB", transparency |-> FALSE, exif |-> FALSE, size |-> img.size,
               composed |-> IF img.mode \in {"RGBA", "LA"} THEN "white_alpha" ELSE "white_nomask"]
         ELSE IF img.mode # "RGB"
              THEN [img EXCEPT !.mode = "RGB", !.composed = "converted"]
              ELSE img
    ELSE img

(* ------------------------------ Encoder ------------------------------- *)
\* out_fmt = None
NoFormat == "<NoFormat>"

\* save_image up to im.save: the format and the keyword parameters im.save is
\* called with; params is the dict, a function from its keys
save_image(im, out_ext, out_fmt_choice, dpi, keep_exif, quality) ==
    LET out_fmt == IF out_fmt_choice # NoFormat /\ out_fmt_choice # "Orijinal"
                   THEN out_fmt_choice ELSE NoFormat
        p_dpi   == IF dpi # 0 THEN "dpi" :> <<dpi, dpi>> ELSE <<>>
        ext     == lower(out_ext)
        p_qual  == IF out_fmt_choice \in {"JPEG", "WEBP"} \/ ext \in {".jpg", ".jpeg", ".webp"}
                   THEN ("quality" :> clamp(quality, 1, 100)) @@ ("optimize" :> TRUE)
                   ELSE <<>>
        p_exif  == IF keep_exif /\ im.exif THEN "exif" :> "exif_bytes" ELSE <<>>
    IN  [im |-> im, ext |-> out_ext, format |-> out_fmt, params |-> p_dpi @@ p_qual @@ p_exif]

\* im.save(str(out_path), format=out_fmt, ...): the format of the file that
\* is written is the explicit one, or the one registered for the suffix
written_format(out_ext, out_fmt) ==
    IF out_fmt # NoFormat THEN out_fmt
    ELSE CASE lower(out_ext) \in {".jpg", ".jpeg", ".jpe"} -> "JPEG"
           [] lower(out_ext) = ".png"  -> "PNG"
           [] lower(out_ext) = ".webp" -> "WEBP"
           [] lower(out_ext) = ".bmp"  -> "BMP"
           [] lower(out_ext) \in {".tif", ".tiff"} -> "TIFF"
           [] lower(out_ext) = ".gif"  -> "GIF"
           [] OTHER -> "unknown"

(* ------------------------- environment of Spec ------------------------ *)
\* the files the user can pick: two images in different folders that share
\* stem and extension (up to case), and a file that is no image
P1 == [dir |-> "a", stem |-> "x", suffix |-> ".jpg"]
P2 == [dir |-> "b", stem |-> "x", suffix |-> ".JPG"]
P3 == [dir |-> "a", stem |-> "notes", suffix |-> ".txt"]
Paths == {P1, P2, P3}

\* im.size of the decoded file: a/x.jpg is 4x2, b/x.JPG is 2x1
ImgSize(p) == IF p = P1 THEN <<4, 2>> ELSE <<2, 1>>

\* the settings read from the widgets when Start is pressed: the defaults
\* (50 percent, format kept: the two images get different names), and a fixed
\* 2x1 box written as JPEG (the two images get the same name)
Requests ==
    { [mode |-> "percent", percent |-> 50, width_px |-> 1920, height_px |-> 1080,
       keep_aspect |-> TRUE, fmt |-> "Orijinal"],
      [mode |-> "pixel", percent |-> 50, width_px |-> 2, height_px |-> 1,
       keep_aspect |-> FALSE, fmt |-> "JPEG"] }

\* str(e) of the exceptions the pipeline can raise
MsgOpen   == "Dosya acilamadi veya desteklenmiyor."
MsgVerify == "Kaydetme basarisiz: cikti dosyasi olusmadi."
\* an exception raised inside the imaging library; MemoryError() has no message
ExcMsgs   == {""}
NoMsg     == "<None>"

LogPath == "out_dir/gnn_image_resize_errors.log"

Status(text, i, n, e) == [text |-> text, idx |-> i, total |-> n, errs |-> e]


(* ------------------------------- state -------------------------------- *)
VARIABLES
    files,            \* self.files
    stop_flag,        \* self.stop_flag
    locked,           \* lock_ui: Start disabled and Stop enabled
    status,           \* self.status_var
    progress,         \* number of progress.step(1) since the bar was reset
    progressMax,      \* maximum of the progress bar
    msgbox,           \* the modal dialog start() is showing, "none" if none is open
    pollPending,      \* an after(200, _poll_worker) callback is scheduled
    workerPc,         \* position of the worker thread in _process_all
    args,             \* kwargs of _process_all
    it,               \* index held by the iterator of enumerate(self.files)
    idx, path,        \* loop variables of _process_all
    total, errs, first_error_msg,
    summary,          \* the showerror the worker scheduled after the loop
    log,              \* gnn_image_resize_errors.log: the entries this batch appended
    stale,            \* gnn_image_resize_errors.log: the number of entries of
                      \* earlier batches that precede them
    \* history of the current batch
    batch,            \* number of workers created so far
    mkdirs,           \* out_dir.mkdir calls made by the start() of this batch
    started,          \* items the worker has started
    opened,           \* the paths handed to safe_open_image, in order
    outputs,          \* the output names of the items that succeeded, in order
    written,          \* the names this batch has left in the output directory
                      \* with a non-zero size
    failing,          \* number of items whose pipeline raised
    observed,         \* the last worker to enter its loop saw stop_flag set and
                      \* left the loop
    exhausted,        \* the iterator ran out of files
    stopK,            \* items started when stop was first requested, -1 if not
    ioFaults,         \* number of swallowed I/O faults so far
    \* SpecSize
    im_size, request, new_size,
    \* SpecSave
    job,              \* a decoded image and the settings it is saved with
    enc               \* what im.save is called with, NoEnc before the call

uiVars     == <<files, stop_flag, locked, status, progress, progressMax, msgbox, pollPending>>
workerVars == <<workerPc, args, it, idx, path, total, errs, first_error_msg, summary>>
envVars    == <<log, stale>>
histVars   == <<batch, mkdirs, started, opened, outputs, written, failing, observed, exhausted, stopK, ioFaults>>
sizeVars   == <<im_size, request, new_size>>
saveVars   == <<job, enc>>
pureVars   == <<sizeVars, saveVars>>
vars       == <<uiVars, workerVars, envVars, histVars, sizeVars, saveVars>>

\* the state after App.__init__
BatchInit ==
    /\ files = <<>>
    /\ stop_flag = FALSE
    /\ locked = FALSE
    /\ status = Status("Ready", 0, 0, 0)
    /\ progress = 0
    /\ progressMax = 0
    /\ msgbox = "none"
    /\ pollPending = FALSE
    /\ workerPc = "none"
    /\ args = CHOOSE r \in Requests : r.mode = "percent"
    /\ it = 0
    /\ idx = 0
    /\ path = P1
    /\ total = 0
    /\ errs = 0
    /\ first_error_msg = NoMsg
    /\ summary = <<>>
    /\ log = <<>>
    /\ stale = 0
    /\ batch = 0
    /\ mkdirs = 0
    /\ started = 0
    /\ opened = <<>>
    /\ outputs = <<>>
    /\ written = {}
    /\ failing = 0
    /\ observed = FALSE
    /\ exhausted = FALSE
    /\ stopK = -1
    /\ ioFaults = 0

(* ------------------------- UI thread: the list ------------------------ *)
\* _try_add: the Add buttons stay enabled while a batch runs
_try_add(p) ==
    /\ msgbox = "none"
    /\ lower(p.suffix) \in SUPPORTED_EXTS
    /\ \A i \in DOMAIN files : files[i] # p
    /\ files' = Append(files, p)
    /\ UNCHANGED <<stop_flag, locked, status, progress, progressMax, msgbox, pollPending>>
    /\ UNCHANGED <<workerVars, envVars, histVars, pureVars>>

\* clear_list: enabled while a batch runs, too
clear_list ==
    /\ msgbox = "none"
    /\ files # <<>>
    /\ files' = <<>>
    /\ UNCHANGED <<stop_flag, locked, status, progress, progressMax, msgbox, pollPending>>
    /\ UNCHANGED <<workerVars, envVars, histVars, pureVars>>

(* ---------------------- UI thread: start and stop --------------------- *)
\* start() that takes the UI into the running state before it checks anything
start_unchecked ==
    /\ msgbox = "none"
    /\ ~locked
    /\ batch < MaxBatches
    /\ \E req \in Requests :
         /\ stop_flag' = FALSE
         /\ locked' = TRUE
         /\ progress' = 0
         /\ progressMax' = Len(files)
         /\ status' = Status("Started", 0, 0, 0)
         /\ IF files = <<>>
            THEN /\ msgbox' = "EmptyInput"
                 /\ UNCHANGED <<files, pollPending, workerVars, envVars, histVars, pureVars>>
            ELSE /\ args' = req
                 /\ workerPc' = "init"
                 /\ pollPending' = TRUE
                 /\ summary' = <<>>
                 /\ batch' = batch + 1
                 /\ mkdirs' = 0
                 /\ started' = 0
                 /\ opened' = <<>>
                 /\ outputs' = <<>>
                 /\ written' = {}
                 /\ failing' = 0
                 /\ exhausted' = FALSE
                 /\ stopK' = -1
                 /\ it' = 0 /\ idx' = 0 /\ path' = P1 /\ total' = 0
                 /\ errs' = 0 /\ first_error_msg' = NoMsg
                 /\ UNCHANGED <<files, msgbox, envVars, ioFaults, observed, pureVars>>

\* start() without line 394: the flag keeps the value the last batch left
start_keep_flag ==
    /\ msgbox = "none"
    /\ ~locked
    /\ \/ \* no files: warning, return
          /\ files = <<>>
          /\ msgbox' = "EmptyInput"
          /\ UNCHANGED <<files, stop_flag, locked, status, progress, progressMax, pollPending>>
          /\ UNCHANGED <<workerVars, envVars, histVars, pureVars>>
       \/ \* out_dir.mkdir raises: error dialog, return
          /\ files # <<>>
          /\ msgbox' = "OutputDirectory"
          /\ UNCHANGED <<files, stop_flag, locked, status, progress, progressMax, pollPending>>
          /\ UNCHANGED <<workerVars, envVars, histVars, pureVars>>
       \/ \* the batch starts: flag cleared, UI locked, worker created, poll scheduled
          /\ files # <<>>
          /\ batch < MaxBatches
          /\ \E req \in Requests : args' = req
          /\ UNCHANGED stop_flag
          /\ locked' = TRUE
          /\ progress' = 0
          /\ progressMax' = Len(files)
          /\ status' = Status("Started", 0, 0, 0)
          /\ workerPc' = "init"
          /\ pollPending' = TRUE
          /\ summary' = <<>>
          /\ batch' = batch + 1
          /\ mkdirs' = 1
          /\ started' = 0
          /\ opened' = <<>>
          /\ outputs' = <<>>
          /\ written' = {}
          /\ failing' = 0
          /\ exhausted' = FALSE
          /\ stopK' = -1
          \* the locals of the new thread's _process_all are not bound yet
          /\ it' = 0 /\ idx' = 0 /\ path' = P1 /\ total' = 0
          /\ errs' = 0 /\ first_error_msg' = NoMsg
          /\ UNCHANGED <<files, msgbox, envVars, ioFaults, observed, pureVars>>

\* start(): Start is enabled only while the UI is unlocked; showwarning and
\* showerror are modal, the call returns when the dialog is dismissed
start ==
    /\ msgbox = "none"
    /\ ~locked
    /\ \/ \* no files: warning, return
          /\ files = <<>>
          /\ msgbox' = "EmptyInput"
          /\ UNCHANGED <<files, stop_flag, locked, status, progress, progressMax, pollPending>>
          /\ UNCHANGED <<workerVars, envVars, histVars, pureVars>>
       \/ \* out_dir.mkdir raises: error dialog, return
          /\ files # <<>>
          /\ msgbox' = "OutputDirectory"
          /\ UNCHANGED <<files, stop_flag, locked, status, progress, progressMax, pollPending>>
          /\ UNCHANGED <<workerVars, envVars, histVars, pureVars>>
       \/ \* the batch starts: flag cleared, UI locked, worker created, poll scheduled
          /\ files # <<>>
          /\ batch < MaxBatches
          /\ \E req \in Requests : args' = req
          /\ stop_flag' = FALSE
          /\ locked' = TRUE
          /\ progress' = 0
          /\ progressMax' = Len(files)
          /\ status' = Status("Started", 0, 0, 0)
          /\ workerPc' = "init"
          /\ pollPending' = TRUE
          /\ summary' = <<>>
          /\ batch' = batch + 1
          /\ mkdirs' = 1
          /\ started' = 0
          /\ opened' = <<>>
          /\ outputs' = <<>>
          /\ written' = {}
          /\ failing' = 0
          /\ exhausted' = FALSE
          /\ stopK' = -1
          \* the locals of the new thread's _process_all are not bound yet
          /\ it' = 0 /\ idx' = 0 /\ path' = P1 /\ total' = 0
          /\ errs' = 0 /\ first_error_msg' = NoMsg
          /\ UNCHANGED <<files, msgbox, envVars, ioFaults, observed, pureVars>>

\* the user closes the dialog of start(), which returns
dismiss ==
    /\ msgbox # "none"
    /\ msgbox' = "none"
    /\ UNCHANGED <<files, stop_flag, locked, status, progress, progressMax, pollPending>>
    /\ UNCHANGED <<workerVars, envVars, histVars, pureVars>>

\* stop(): Stop is enabled only while the UI is locked
stop ==
    /\ locked
    /\ stop_flag' = TRUE
    /\ status' = Status("Stopping", 0, 0, 0)
    /\ stopK' = IF stopK = -1 THEN started ELSE stopK
    /\ UNCHANGED <<files, locked, progress, progressMax, msgbox, pollPending>>
    /\ UNCHANGED <<workerVars, envVars, pureVars>>
    /\ UNCHANGED <<batch, mkdirs, started, opened, outputs, written, failing, observed, exhausted, ioFaults>>

\* the callback that leaves the UI locked when it finds the worker dead
_poll_worker_no_unlock ==
    /\ pollPending
    /\ IF workerPc \in {"init", "loop", "item"}
       THEN UNCHANGED <<locked, status, pollPending>>
       ELSE /\ pollPending' = FALSE
            /\ status' = IF ~stop_flag THEN Status("Completed", 0, 0, 0)
                                       ELSE Status("Cancelled", 0, 0, 0)
            /\ UNCHANGED locked
    /\ UNCHANGED <<files, stop_flag, progress, progressMax, msgbox>>
    /\ UNCHANGED <<workerVars, envVars, histVars, pureVars>>

\* the callback without the test of worker.is_alive()
_poll_worker_no_alive_check ==
    /\ pollPending
    /\ pollPending' = FALSE
    /\ locked' = FALSE
    /\ status' = IF ~stop_flag THEN Status("Completed", 0, 0, 0)
                               ELSE Status("Cancelled", 0, 0, 0)
    /\ UNCHANGED <<files, stop_flag, progress, progressMax, msgbox>>
    /\ UNCHANGED <<workerVars, envVars, histVars, pureVars>>

\* _poll_worker, the after(200) callback
_poll_worker ==
    /\ pollPending
    /\ IF workerPc \in {"init", "loop", "item"}
       THEN \* worker.is_alive(): poll again
            UNCHANGED <<locked, status, pollPending>>
       ELSE /\ pollPending' = FALSE
            /\ locked' = FALSE
            /\ status' = IF ~stop_flag THEN Status("Completed", 0, 0, 0)
                                       ELSE Status("Cancelled", 0, 0, 0)
    /\ UNCHANGED <<files, stop_flag, progress, progressMax, msgbox>>
    /\ UNCHANGED <<workerVars, envVars, histVars, pureVars>>

(* --------------------- worker thread: _process_all -------------------- *)
\* the prologue without the removal of the old log: its entries stay
W_Init_no_unlink ==
    /\ workerPc = "init"
    /\ errs' = 0
    /\ first_error_msg' = NoMsg
    /\ log' = <<>>
    /\ stale' = stale + Len(log)
    /\ UNCHANGED ioFaults
    /\ total' = Len(files)
    /\ it' = 0
    /\ workerPc' = "loop"
    /\ UNCHANGED <<args, idx, path, summary>>
    /\ UNCHANGED <<uiVars, pureVars>>
    /\ observed' = FALSE
    /\ UNCHANGED <<batch, mkdirs, started, opened, outputs, written, failing, exhausted, stopK>>

\* lines 447-459: counters, removal of the old log (a failure is swallowed), total
W_Init ==
    /\ workerPc = "init"
    /\ errs' = 0
    /\ first_error_msg' = NoMsg
    /\ \/ \* no old log, or it is removed
          /\ log' = <<>>
          /\ stale' = 0
          /\ UNCHANGED ioFaults
       \/ \* log_path.unlink() raises: swallowed, the old entries stay
          /\ stale + Len(log) > 0
          /\ ioFaults < MaxIoFaults
          /\ ioFaults' = ioFaults + 1
          /\ log' = <<>>
          /\ stale' = stale + Len(log)
    /\ total' = Len(files)
    /\ it' = 0
    /\ workerPc' = "loop"
    /\ UNCHANGED <<args, idx, path, summary>>
    /\ UNCHANGED <<uiVars, pureVars>>
    /\ observed' = FALSE
    /\ UNCHANGED <<batch, mkdirs, started, opened, outputs, written, failing, exhausted, stopK>>

\* lines 515-521: after the loop the worker schedules the summary dialog
Summary ==
    IF errs > 0 /\ first_error_msg \notin {NoMsg, ""}
    THEN <<[count |-> errs, first |-> first_error_msg, log |-> LogPath]>>
    ELSE <<>>

\* the loop head without the test of stop_flag
W_Begin_no_check ==
    /\ workerPc = "loop"
    /\ IF it < Len(files)
       THEN /\ it' = it + 1
            /\ idx' = it + 1
            /\ path' = files[it + 1]
            /\ workerPc' = "item"
            /\ started' = started + 1
            /\ UNCHANGED <<summary, observed, exhausted>>
       ELSE /\ workerPc' = "dead"
            /\ summary' = Summary
            /\ exhausted' = TRUE
            /\ UNCHANGED <<it, idx, path, started, observed>>
    /\ UNCHANGED <<args, total, errs, first_error_msg>>
    /\ UNCHANGED <<uiVars, envVars, pureVars>>
    /\ UNCHANGED <<batch, mkdirs, opened, outputs, written, failing, stopK, ioFaults>>

\* lines 461-463: the list iterator yields the next element of self.files as
\* the list is now, or ends the loop; then stop_flag is tested.  When the loop
\* is left (break or exhaustion) lines 515-521 run and the thread ends
W_Begin ==
    /\ workerPc = "loop"
    /\ IF it < Len(files)
       THEN /\ it' = it + 1
            /\ idx' = it + 1
            /\ path' = files[it + 1]
            /\ IF stop_flag
               THEN /\ workerPc' = "dead"
                    /\ summary' = Summary
                    /\ observed' = TRUE
                    /\ UNCHANGED started
               ELSE /\ workerPc' = "item"
                    /\ started' = started + 1
                    /\ UNCHANGED <<summary, observed>>
            /\ UNCHANGED exhausted
       ELSE /\ workerPc' = "dead"
            /\ summary' = Summary
            /\ exhausted' = TRUE
            /\ UNCHANGED <<it, idx, path, started, observed>>
    /\ UNCHANGED <<args, total, errs, first_error_msg>>
    /\ UNCHANGED <<uiVars, envVars, pureVars>>
    /\ UNCHANGED <<batch, mkdirs, opened, outputs, written, failing, stopK, ioFaults>>

\* the size and the output name the item is given (lines 471-480)
ItemSize(p, a) ==
    compute_new_size(ImgSize(p)[1], ImgSize(p)[2], a.mode, a.percent,
                     a.width_px, a.height_px, a.keep_aspect)
ItemName(p, a) == out_name(p, ItemSize(p, a), guess_output_ext(a.fmt, p.suffix))

\* the except clause (lines 500-509) and the finally clause (lines 510-512);
\* of a log entry the index, the total and the path are kept, its message and
\* trace text are not
ItemFailed(msg) ==
    /\ errs' = errs + 1
    /\ failing' = failing + 1
    /\ \/ \* the entry is appended to the log
          /\ log' = Append(log, [idx |-> idx, total |-> total, path |-> path])
          /\ UNCHANGED ioFaults
       \/ \* open() or write() raises: swallowed
          /\ ioFaults < MaxIoFaults
          /\ ioFaults' = ioFaults + 1
          /\ UNCHANGED log
    /\ first_error_msg' = IF first_error_msg = NoMsg THEN msg ELSE first_error_msg
    /\ status' = Status("Progress", idx, total, errs + 1)
    /\ UNCHANGED <<outputs, stale>>

\* one item without lines 497-498: a missing or empty output passes
W_Item_no_verify ==
    /\ workerPc = "item"
    /\ opened' = Append(opened, path)
    /\ progress' = progress + 1
    /\ workerPc' = "loop"
    /\ \/ /\ ItemFailed(MsgOpen)
          /\ UNCHANGED written
       \/ /\ ItemSize(path, args) # ImgSize(path)
          /\ \E msg \in ExcMsgs : ItemFailed(msg)
          /\ UNCHANGED written
       \/ /\ \E msg \in ExcMsgs : ItemFailed(msg)
          /\ \E truncated \in BOOLEAN :
               written' = IF truncated THEN written \ {ItemName(path, args)} ELSE written
       \/ /\ \E present \in BOOLEAN :
               written' = IF present THEN written \cup {ItemName(path, args)}
                                     ELSE written \ {ItemName(path, args)}
          /\ outputs' = Append(outputs, ItemName(path, args))
          /\ status' = Status("Progress", idx, total, errs)
          /\ UNCHANGED <<errs, failing, log, stale, first_error_msg, ioFaults>>
    /\ UNCHANGED <<files, stop_flag, locked, progressMax, msgbox, pollPending>>
    /\ UNCHANGED <<args, it, idx, path, total, summary>>
    /\ UNCHANGED <<batch, mkdirs, started, observed, exhausted, stopK>>
    /\ UNCHANGED pureVars

\* lines 464-512: one item, from safe_open_image to the finally clause
W_Item ==
    /\ workerPc = "item"
    /\ opened' = Append(opened, path)
    /\ progress' = progress + 1
    /\ workerPc' = "loop"
    /\ \/ \* safe_open_image returns None: ValueError
          /\ ItemFailed(MsgOpen)
          /\ UNCHANGED written
       \/ \* im.resize raises (it is called only when the size changes)
          /\ ItemSize(path, args) # ImgSize(path)
          /\ \E msg \in ExcMsgs : ItemFailed(msg)
          /\ UNCHANGED written
       \/ \* save_image raises: the output is not touched, or is left truncated
          /\ \E msg \in ExcMsgs : ItemFailed(msg)
          /\ \E truncated \in BOOLEAN :
               written' = IF truncated THEN written \ {ItemName(path, args)} ELSE written
       \/ \* save_image returns, the output is missing or empty: IOError
          /\ ItemFailed(MsgVerify)
          /\ written' = written \ {ItemName(path, args)}
       \/ \* the output exists with a non-zero size
          /\ written' = written \cup {ItemName(path, args)}
          /\ outputs' = Append(outputs, ItemName(path, args))
          /\ status' = Status("Progress", idx, total, errs)
          /\ UNCHANGED <<errs, failing, log, stale, first_error_msg, ioFaults>>
    /\ UNCHANGED <<files, stop_flag, locked, progressMax, msgbox, pollPending>>
    /\ UNCHANGED <<args, it, idx, path, total, summary>>
    /\ UNCHANGED <<batch, mkdirs, started, observed, exhausted, stopK>>
    /\ UNCHANGED pureVars

(* ------------------- idle state of the save path ---------------------- *)
\* enc before save_image has been called
NoEnc == [format |-> "<NoEnc>"]

\* the values of the widgets after _build_ui (lines 248-286) and an RGB image
SaveIdle ==
    /\ job = [fmt |-> "Orijinal", src_ext |-> ".jpg", dpi |-> 300, keep_exif |-> TRUE,
              quality |-> 90,
              im |-> [mode |-> "RGB", transparency |-> FALSE, exif |-> FALSE,
                      size |-> <<2, 1>>, composed |-> "source"]]
    /\ enc = NoEnc

(* ----------------------------- SpecSize ------------------------------- *)
\* new_size before compute_new_size has returned
NoSize == <<-1, -1>>

\* lines 471-473: compute_new_size(im, mode, percent, width_px, height_px, keep_aspect)
Resize ==
    /\ new_size = NoSize
    /\ new_size' = compute_new_size(im_size[1], im_size[2], request.mode, request.percent,
                                    request.width_px, request.height_px, request.keep_aspect)
    /\ UNCHANGED <<im_size, request>>
    /\ UNCHANGED <<uiVars, workerVars, envVars, histVars, saveVars>>

\* the values of the widgets after _build_ui (lines 219-242)
SizeIdle ==
    /\ im_size = <<1, 1>>
    /\ request = [mode |-> "percent", percent |-> 50, width_px |-> 1920,
                  height_px |-> 1080, keep_aspect |-> TRUE]
    /\ new_size = NoSize

\* percentages drawn in SpecSize: below the spinbox range, its ends, and
\* values whose product with a small width is exactly halfway
Percents == {-1, 0, 1, 50, 100, 410}
Dims == 1 .. MaxDim
Reqs == -1 .. MaxReq

\* the end-to-end examples: 4000x3000 at 50 percent, 1000x500 to width 400,
\* 800x800 into 300x100
Examples ==
    { <<4000, 3000, "percent", 50, 0, 0, TRUE>>,
      <<1000, 500, "pixel", 50, 400, 0, TRUE>>,
      <<800, 800, "pixel", 50, 300, 100, TRUE>> }

SizeInputs ==
    (Dims \X Dims \X {"pixel"} \X {50} \X Reqs \X Reqs \X BOOLEAN)
    \cup (Dims \X Dims \X {"percent"} \X Percents \X {0, MaxReq} \X {0, MaxReq} \X BOOLEAN)
    \cup Examples

InitSize ==
    /\ BatchInit
    /\ \E x \in SizeInputs :
         /\ im_size = <<x[1], x[2]>>
         /\ request = [mode |-> x[3], percent |-> x[4], width_px |-> x[5],
                       height_px |-> x[6], keep_aspect |-> x[7]]
    /\ new_size = NoSize
    /\ SaveIdle

NextSize == Resize

SpecSize == InitSize /\ [][NextSize]_vars

(* ----------------------------- SpecSave ------------------------------- *)
\* lines 478-494: the output suffix, the mode normalisation and save_image
Encode ==
    /\ enc = NoEnc
    /\ LET out_ext      == guess_output_ext(job.fmt, job.src_ext)
           fmt_for_norm == IF job.fmt # "Orijinal" THEN job.fmt ELSE replace_dot(out_ext)
           im_to_save   == normalize_mode_for_save(job.im, fmt_for_norm)
       IN  enc' = save_image(im_to_save, out_ext,
                             IF job.fmt # "Orijinal" THEN job.fmt ELSE NoFormat,
                             job.dpi, job.keep_exif, job.quality)
    /\ UNCHANGED job
    /\ UNCHANGED <<uiVars, workerVars, envVars, histVars, sizeVars>>

\* the choices of the format box (line 256)
Formats == {"Orijinal", "JPEG", "PNG", "WEBP", "TIFF", "BMP", "GIF"}
\* the supported suffixes, some of them in upper case as well
SrcExts == SUPPORTED_EXTS \cup {".JPG", ".JPEG", ".JPE", ".PNG"}
\* image modes: with alpha, palette with and without transparency, others
Modes == {<<"RGB", FALSE>>, <<"RGBA", FALSE>>, <<"LA", FALSE>>, <<"P", TRUE>>,
          <<"P", FALSE>>, <<"L", FALSE>>, <<"CMYK", FALSE>>}
\* quality below, inside and above 1..100; dpi absent and present
Qualities == {0, 90, 101}
Dpis == {0, 72}

SaveInputs ==
    [fmt : Formats, src_ext : SrcExts, dpi : Dpis, keep_exif : BOOLEAN, quality : Qualities,
     im : {[mode |-> m[1], transparency |-> m[2], exif |-> e, size |-> <<2, 1>>,
            composed |-> "source"] : m \in Modes, e \in BOOLEAN}]

InitSave ==
    /\ BatchInit
    /\ SizeIdle
    /\ job \in SaveInputs
    /\ enc = NoEnc

NextSave == Encode

SpecSave == InitSave /\ [][NextSave]_vars

(* ------------------------------- Spec --------------------------------- *)
Init == BatchInit /\ SizeIdle /\ SaveIdle

Next ==
    \/ \E p \in Paths : _try_add(p)
    \/ clear_list
    \/ start
    \/ dismiss
    \/ stop
    \/ _poll_worker
    \/ W_Init
    \/ W_Begin
    \/ W_Item

Spec == Init /\ [][Next]_vars

\* the worker thread, one sequential process, runs whenever it can take a
\* step, and the after(200)
\* callback is run by the Tk main loop; the user's actions are not forced
FairSpec ==
    /\ Spec
    /\ WF_vars(W_Init \/ W_Begin \/ W_Item)
    /\ WF_vars(_poll_worker)

(***************************************************************************)
(*                        Properties of SpecSize                           *)
(***************************************************************************)
\* the inputs and the result of the call, once it has returned
Computed == new_size # NoSize
src_w == im_size[1]
src_h == im_size[2]

\* the exact quotient num/den rounded to the nearest integer, a tie going to
\* the even neighbour, and a tie going away from zero (num >= 0, den > 0)
ExactHalfEven(num, den) ==
    LET n == num \div den
    IN  IF 2 * (num % den) < den THEN n
        ELSE IF 2 * (num % den) > den THEN n + 1
        ELSE IF n % 2 = 0 THEN n ELSE n + 1
ExactHalfAway(num, den) == (2 * num + den) \div (2 * den)
\* what "max(1, round(num/den))" can mean under the two rounding rules
Rounded(num, den) == {Max(1, ExactHalfEven(num, den)), Max(1, ExactHalfAway(num, den))}

\* C4: in percent mode with percent p >= 1 each returned dimension is
\* max(1, round(dim * p / 100)) of its own source dimension, whatever
\* width_px, height_px and keep_aspect are (round read as either rule)
C4_PercentExact ==
    (Computed /\ request.mode = "percent" /\ request.percent >= 1) =>
        /\ new_size[1] \in Rounded(src_w * request.percent, 100)
        /\ new_size[2] \in Rounded(src_h * request.percent, 100)

\* C5: in pixel mode with keep_aspect and both W > 0 and H > 0 the result is
\* (round(H*w/h), H) when W/H is wider than w/h and (W, round(W*h/w))
\* otherwise, clamped to >= 1, and it lies inside the requested box
C5_BothGiven ==
    (/\ Computed /\ request.mode = "pixel" /\ request.keep_aspect
     /\ request.width_px > 0 /\ request.height_px > 0) =>
        LET W == request.width_px
            H == request.height_px
        IN  /\ new_size[1] <= W
            /\ new_size[2] <= H
            /\ IF W * src_h > src_w * H
               THEN new_size[2] = H /\ new_size[1] \in Rounded(H * src_w, src_h)
               ELSE new_size[1] = W /\ new_size[2] \in Rounded(W * src_h, src_w)

\* C6: in pixel mode with keep_aspect and exactly one of W, H > 0 the given
\* dimension is returned and the other is max(1, round(source * ratio)); with
\* neither given the result is the source size
C6_OneGiven ==
    (Computed /\ request.mode = "pixel" /\ request.keep_aspect) =>
        LET W == request.width_px
            H == request.height_px
        IN  /\ (W > 0 /\ H <= 0) =>
                 new_size[1] = W /\ new_size[2] \in Rounded(src_h * W, src_w)
            /\ (H > 0 /\ W <= 0) =>
                 new_size[2] = H /\ new_size[1] \in Rounded(src_w * H, src_h)
            /\ (W <= 0 /\ H <= 0) => new_size = im_size

\* C7: whatever the request, both returned dimensions are integers >= 1
C7_AtLeastOne ==
    Computed => new_size[1] \in Nat \ {0} /\ new_size[2] \in Nat \ {0}

\* a 1x1 result that only the clamp produces: percent below the spinbox range
C7_Witness ==
    /\ Computed
    /\ request.mode = "percent"
    /\ request.percent < 1
    /\ src_w > 1
    /\ new_size = <<1, 1>>

\* num/den lies exactly halfway between two integers
IsHalf(num, den) == (2 * num) % den = 0 /\ ((2 * num) \div den) % 2 = 1

\* C17: every rounding of compute_new_size is half away from zero: where the
\* exact scaled value is n + 1/2 the result is n + 1, in percent mode and in
\* every keep_aspect branch
C17_HalfAway ==
    Computed =>
        LET W == request.width_px
            H == request.height_px
            p == Max(1, request.percent)
        IN  IF request.mode = "percent"
            THEN /\ IsHalf(src_w * p, 100) => new_size[1] = ExactHalfAway(src_w * p, 100)
                 /\ IsHalf(src_h * p, 100) => new_size[2] = ExactHalfAway(src_h * p, 100)
            ELSE request.keep_aspect =>
                 /\ (W > 0 /\ H <= 0 /\ IsHalf(src_h * W, src_w)) =>
                        new_size[2] = ExactHalfAway(src_h * W, src_w)
                 /\ (H > 0 /\ W <= 0 /\ IsHalf(src_w * H, src_h)) =>
                        new_size[1] = ExactHalfAway(src_w * H, src_h)
                 /\ (W > 0 /\ H > 0 /\ W * src_h > src_w * H /\ IsHalf(H * src_w, src_h)) =>
                        new_size[1] = ExactHalfAway(H * src_w, src_h)
                 /\ (W > 0 /\ H > 0 /\ W * src_h <= src_w * H /\ IsHalf(W * src_h, src_w)) =>
                        new_size[2] = ExactHalfAway(W * src_h, src_w)

\* both sizes are given in pixel mode with keep_aspect, and the requested
\* ratio equals the source ratio
RatioTie ==
    /\ request.mode = "pixel"
    /\ request.keep_aspect
    /\ request.width_px > 0
    /\ request.height_px > 0
    /\ request.width_px * src_h = src_w * request.height_px

\* C16 as stated: at tgt_ratio == src_ratio the height-binding branch is
\* taken, the one that keeps the height and recomputes the width
C16_TieHeightBinding ==
    (Computed /\ RatioTie) =>
        binding_axis(src_w, src_h, request.width_px, request.height_px) = "height"

\* C16 amended: at tgt_ratio == src_ratio the width-binding branch is taken,
\* the one that keeps the width and recomputes the height as
\* round(target_w / src_ratio); the result is the requested size
C16_TieWidthBinding ==
    (Computed /\ RatioTie) =>
        /\ binding_axis(src_w, src_h, request.width_px, request.height_px) = "width"
        /\ new_size = <<request.width_px, Max(1, RoundDiv(request.width_px, src_w, src_h))>>
        /\ new_size = <<request.width_px, request.height_px>>

\* a 20x10 source asked to fit 10x5
C16_Witness ==
    /\ Computed
    /\ RatioTie
    /\ im_size = <<20, 10>>
    /\ new_size = <<10, 5>>

(***************************************************************************)
(*                          Properties of Spec                             *)
(***************************************************************************)
\* what the batch has counted
processed == progress
failed    == errs
succeeded == progress - errs
\* the worker has returned and the poll timer has seen it
Terminal == batch >= 1 /\ workerPc = "dead" /\ ~pollPending

\* C1: when stop is requested after item k has started and before item k+1
\* (1 <= k < N), no further item is started, opened, counted or logged, the
\* worker ends with exactly k items processed, each succeeded or failed, and
\* the status reported at the end is Cancelled
C1_Cancel ==
    (stopK >= 1 /\ stopK < total) =>
        /\ started = stopK
        /\ Len(opened) <= stopK
        /\ processed <= stopK
        /\ failed <= processed
        /\ \A i \in DOMAIN log : log[i].idx <= stopK
        /\ workerPc = "dead" =>
             /\ processed = stopK
             /\ Len(opened) = stopK
             /\ Len(outputs) + failed = stopK
             /\ Len(outputs) = succeeded
        /\ Terminal => status.text = "Cancelled"

\* a batch of two files, stopped while the first was in flight, at its end
C1_Witness ==
    /\ Terminal
    /\ total = 2
    /\ stopK = 1
    /\ processed = 1
    /\ Len(files) = 2
    /\ status.text = "Cancelled"

\* C2: in a batch of N files that is not cancelled every item is attempted
\* whatever fails: at the end processed = N, failed is the number of failing
\* items and succeeded = N - failed
C2_Isolation ==
    (batch >= 1 /\ workerPc = "dead" /\ stopK = -1) =>
        /\ processed = total
        /\ Len(opened) = total
        /\ failed = failing
        /\ succeeded = total - failed

\* C3: at the end the status is Completed when the worker exhausted the list
\* without observing the flag, and Cancelled only when the worker observed the
\* flag at an iteration boundary
C3_Terminal ==
    Terminal =>
        /\ (exhausted /\ ~observed) => status.text = "Completed"
        /\ status.text = "Cancelled" => observed

\* two processed items share an output name's parts: stem, resolved extension
\* and target size
SharedName ==
    \E i, j \in DOMAIN opened :
        /\ i # j
        /\ opened[i].stem = opened[j].stem
        /\ guess_output_ext(args.fmt, opened[i].suffix) = guess_output_ext(args.fmt, opened[j].suffix)
        /\ ItemSize(opened[i], args) = ItemSize(opened[j], args)

\* C8 as stated: the number of distinct output files the batch has written is
\* the number of items counted as succeeded, for every file list
C8_OnePerSuccess ==
    (batch >= 1 /\ workerPc = "dead") => Cardinality(written) = succeeded

\* C8 amended: every succeeded item wrote one file named from its stem, its
\* target size and its resolved extension; the distinct files written are at
\* most the succeeded items, and exactly as many when no two processed items
\* share stem, resolved extension and target size
C8_Amended ==
    /\ Len(outputs) = succeeded
    /\ \A k \in DOMAIN outputs :
         \E i \in DOMAIN opened :
            /\ outputs[k].stem = opened[i].stem
            /\ <<outputs[k].w, outputs[k].h>> = ItemSize(opened[i], args)
            /\ outputs[k].ext = guess_output_ext(args.fmt, opened[i].suffix)
    /\ Cardinality(written) <= succeeded
    /\ ~SharedName =>
         /\ written = {outputs[k] : k \in DOMAIN outputs}
         /\ Cardinality(written) = succeeded

\* two items with different target sizes both succeeded: two files
C8_Witness ==
    /\ workerPc = "dead"
    /\ opened = <<P1, P2>>
    /\ ~SharedName
    /\ succeeded = 2
    /\ Cardinality(written) = 2

\* C9: after the worker has finished, a summary with the failure count, the
\* first failure's message and the log path is surfaced exactly when the
\* failure count is > 0, whatever the first message is
C9_Summary ==
    (batch >= 1 /\ workerPc = "dead") =>
        IF failed > 0
        THEN summary = <<[count |-> failed, first |-> first_error_msg, log |-> LogPath]>>
        ELSE summary = <<>>

\* C10: a start() that is rejected (empty list, or the output directory cannot
\* be created) changes nothing but the dialog it shows; a worker is created
\* only from a non-empty list and after the one mkdir of its batch
C10_StartRejected ==
    [][ /\ (msgbox = "none" /\ msgbox' # "none") =>
             /\ UNCHANGED <<files, stop_flag, locked, status, progress, progressMax, pollPending>>
             /\ UNCHANGED <<workerVars, envVars, histVars>>
             /\ workerPc \in {"none", "dead"}
             /\ msgbox' = "EmptyInput" <=> files = <<>>
        /\ (workerPc' = "init" /\ workerPc # "init") => (files # <<>> /\ mkdirs' = 1)
        /\ started' > 0 => mkdirs' = 1
      ]_vars

\* start() rejected for the output directory after a cancelled batch: the
\* stop flag and the progress of that batch are still there
C10_Witness ==
    /\ msgbox = "OutputDirectory"
    /\ stop_flag
    /\ processed > 0
    /\ ~locked

\* C11: the error log holds one entry per failed item of the current batch,
\* in processing order, each with the item's index, the total and its path;
\* without I/O faults nothing of an earlier batch is left in it and no entry
\* is missing; a fault in removing the old log or in writing an entry is
\* swallowed: the item is counted as failed, the first message is recorded and
\* the worker goes on to the loop head (stated from the end of the prologue,
\* where the old log is removed, onwards)
C11_Log ==
    workerPc \in {"loop", "item", "dead"} =>
    /\ Len(log) <= failed
    /\ failed - Len(log) <= ioFaults
    /\ failed = failing
    /\ failed > 0 => first_error_msg # NoMsg
    /\ \A i \in DOMAIN log :
         /\ log[i].idx \in DOMAIN opened
         /\ log[i].path = opened[log[i].idx]
         /\ log[i].total = total
         /\ \A j \in DOMAIN log : i < j => log[i].idx < log[j].idx
    /\ ioFaults = 0 => (stale = 0 /\ Len(log) = failed)
    /\ workerPc \in {"loop", "dead"} => Len(outputs) + failed = processed
    /\ workerPc = "dead" => (observed \/ exhausted)

\* the second batch into the same directory ended with two failures and,
\* without I/O faults, a log of exactly these two
C11_Witness ==
    /\ batch = 2
    /\ workerPc = "dead"
    /\ ioFaults = 0
    /\ failed = 2
    /\ Len(log) = 2
    /\ log[1].idx = 1
    /\ log[2].idx = 2

\* the worker thread exists and has not returned
Alive == workerPc \in {"init", "loop", "item"}

\* C14: while a worker is alive Start is disabled and the poll timer is
\* scheduled, so a worker is created only when none is alive; at most one item
\* is in flight, and item i+1 is started, from the loop head, only after item i
\* has passed its finally clause; the items are taken at consecutive indices
\* of the list
C14_OneAtATime ==
    /\ [](/\ Alive => (locked /\ pollPending)
          /\ processed = Len(opened)
          /\ workerPc = "item" => (started = processed + 1 /\ idx = started)
          /\ workerPc \in {"none", "init", "loop", "dead"} => started = processed)
    /\ [][ /\ batch' # batch => (~Alive /\ ~locked /\ batch' = batch + 1 /\ workerPc' = "init")
           /\ started' > started =>
                /\ workerPc = "loop"
                /\ started' = started + 1
                /\ started' \in DOMAIN files
                /\ path' = files[started']
           /\ Len(opened') > Len(opened) => opened' = Append(opened, path)
         ]_vars

\* the second worker, created after the first was seen dead, has its second
\* item in flight
C14_Witness ==
    /\ batch = 2
    /\ workerPc = "item"
    /\ started = 2
    /\ processed = 1
    /\ locked

\* C15: list edits made while a batch runs do not reach the running batch: a
\* batch that ends Completed has attempted as many files as the list held when
\* start() was called (the maximum start() gave the progress bar), no file
\* twice, and the index of a progress report never exceeds its total
C15_ListNotShared ==
    /\ (Terminal /\ status.text = "Completed") =>
          /\ Len(opened) = progressMax
          /\ \A i, j \in DOMAIN opened : opened[i] = opened[j] => i = j
    /\ status.text = "Progress" => status.idx <= status.total

\* C18: an item is counted as succeeded only when its output exists with a
\* non-zero size after save_image has returned; an item whose output is
\* missing or empty is counted as failed, its entry is appended to the log
\* (unless that write fails), the first message is recorded if there was none,
\* kept otherwise, and the worker goes on to the loop head
C18_WriteVerified ==
    [][ processed' = processed + 1 =>
          /\ failed' = failed =>
               /\ ItemName(path, args) \in written'
               /\ outputs' = Append(outputs, ItemName(path, args))
          /\ ItemName(path, args) \notin written' =>
               /\ failed' = failed + 1
               /\ outputs' = outputs
               /\ \/ log' = Append(log, [idx |-> idx, total |-> total, path |-> path])
                  \/ (log' = log /\ ioFaults' = ioFaults + 1)
               /\ first_error_msg' # NoMsg
               /\ first_error_msg # NoMsg => first_error_msg' = first_error_msg
               /\ workerPc' = "loop"
      ]_vars

\* the first of two items failed the verification, the second was written
C18_Witness ==
    /\ workerPc = "dead"
    /\ opened = <<P1, P2>>
    /\ first_error_msg = MsgVerify
    /\ failed = 1
    /\ Len(log) = 1
    /\ log[1].idx = 1
    /\ Len(outputs) = 1
    /\ written = {ItemName(P2, args)}

\* C19: a batch that is running (UI locked) eventually reaches a terminal
\* status, Completed or Cancelled, with the UI unlocked; the UI is locked only
\* by a start() that creates a worker, so it stays unlocked until then
C19_Terminates ==
    /\ locked ~> (~locked /\ ~Alive /\ status.text \in {"Completed", "Cancelled"})
    /\ [][ (~locked /\ locked') => (batch' = batch + 1 /\ workerPc' = "init") ]_vars
    /\ [][ (locked /\ ~locked') => (~Alive /\ status'.text \in {"Completed", "Cancelled"}) ]_vars

\* the second batch has ended Completed and the UI is unlocked
C19_Witness ==
    /\ batch = 2
    /\ ~locked
    /\ ~Alive
    /\ ~pollPending
    /\ status.text = "Completed"
    /\ processed = 2

\* C20: start() clears the flag before it creates the worker, so in a batch
\* during which stop has not been requested the flag is clear, the worker
\* never observes it and leaves the loop only when the list is exhausted,
\* whatever happened in the batch before
C20_NoCarryOver ==
    /\ [](stopK = -1 =>
            /\ ~stop_flag
            /\ workerPc \in {"loop", "item", "dead"} => ~observed
            /\ workerPc = "dead" => (exhausted /\ processed = started)
            /\ Terminal => status.text = "Completed")
    /\ [][ (workerPc' = "init" /\ workerPc # "init") => (~stop_flag' /\ stopK' = -1) ]_vars

\* the worker of the first batch left its loop on the flag; the worker of the
\* second batch has been created and the flag is clear
C20_Witness ==
    /\ batch = 2
    /\ workerPc = "init"
    /\ observed
    /\ stopK = -1
    /\ ~stop_flag
    /\ locked

(***************************************************************************)
(*                        Properties of SpecSave                           *)
(***************************************************************************)
Encoded == enc # NoEnc
\* the target is a JPEG file: JPEG chosen, or the format kept and the source
\* suffix is jpg, jpeg or jpe in any letter case
JpegFamily == job.fmt = "JPEG" \/ (job.fmt = "Orijinal" /\ lower(job.src_ext) \in {".jpg", ".jpeg", ".jpe"})
HasAlpha == job.im.mode \in {"RGBA", "LA"} \/ (job.im.mode = "P" /\ job.im.transparency)

\* C12: im.save gets quality = clamp(quality, 1, 100) and optimize = true
\* exactly when the file written is a JPEG or WEBP file, dpi = (dpi, dpi)
\* exactly when dpi is non-zero, and an explicit format exactly when the
\* choice is not Original
C12_EncoderParams ==
    Encoded =>
        /\ ("quality" \in DOMAIN enc.params) <=> (written_format(enc.ext, enc.format) \in {"JPEG", "WEBP"})
        /\ ("optimize" \in DOMAIN enc.params) <=> ("quality" \in DOMAIN enc.params)
        /\ "quality" \in DOMAIN enc.params =>
             /\ enc.params["quality"] = Max(1, Min(100, job.quality))
             /\ enc.params["optimize"] = TRUE
        /\ ("dpi" \in DOMAIN enc.params) <=> (job.dpi # 0)
        /\ "dpi" \in DOMAIN enc.params => enc.params["dpi"] = <<job.dpi, job.dpi>>
        /\ (enc.format # NoFormat) <=> (job.fmt # "Orijinal")
        /\ enc.format # NoFormat => enc.format = job.fmt

\* C13: for a JPEG target an image with alpha is handed to the encoder in mode
\* RGB, composed over white, with the size unchanged, any other image in mode
\* RGB; for another target the image is handed over unchanged
C13_NoAlphaForJpeg ==
    Encoded =>
        /\ (JpegFamily /\ HasAlpha) =>
             /\ enc.im.mode = "RGB"
             /\ ~enc.im.transparency
             /\ enc.im.size = job.im.size
             /\ enc.im.composed \in {"white_alpha", "white_nomask"}
        /\ (JpegFamily /\ ~HasAlpha) => enc.im.mode = "RGB"
        /\ ~JpegFamily => enc.im = job.im

=============================================================================
